---- MODULE Spec2Model ----
(***************************************************************************)
(* merged-fs: a registry of mount paths, each with an ordered list of      *)
(* filesystem descriptors, and the blocking / non-blocking dispatch of     *)
(* stat, readFile, readlink and readdir over the candidates of a path.     *)
(*                                                                         *)
(* Strings are sequences of one-character strings; JavaScript objects      *)
(* that the code distinguishes by identity (Map, Array, MergedFileSystem)  *)
(* live in heaps indexed by their identity.                                *)
(***************************************************************************)
EXTENDS Integers, Sequences, FiniteSets, TLC

(***************************************************************************)
(* Bounds of the model.                                                    *)
(***************************************************************************)
\* Calls of addMountPoints / addMountPoint after the construction.
MaxRegistrations == 2

\* MergedFileSystem objects made (the original and its clones).
MaxObjects == 2

(***************************************************************************)
(* JavaScript strings.                                                     *)
(***************************************************************************)
\* String.prototype.charCodeAt for the characters the model uses.
charCode(c) ==
  CASE c = "." -> 46
    [] c = "/" -> 47
    [] c = "A" -> 65
    [] c = "F" -> 70
    [] c = "Y" -> 89
    [] c = "a" -> 97
    [] c = "b" -> 98
    [] c = "f" -> 102
    [] c = "x" -> 120

\* a < b on strings: comparison by UTF-16 code units, a proper prefix first.
RECURSIVE strLess(_, _)
strLess(a, b) ==
  IF b = <<>> THEN FALSE
  ELSE IF a = <<>> THEN TRUE
  ELSE IF Head(a) = Head(b) THEN strLess(Tail(a), Tail(b))
  ELSE charCode(Head(a)) < charCode(Head(b))

\* a.indexOf(b) === 0
startsWith(a, b) ==
  /\ Len(b) <= Len(a)
  /\ SubSeq(a, 1, Len(b)) = b

\* a.slice(n)
slice(a, n) ==
  IF n >= Len(a) THEN <<>> ELSE SubSeq(a, n + 1, Len(a))

\* Array.prototype.sort() with the default comparison on an array of
\* strings, as an insertion sort.
RECURSIVE insertSorted(_, _)
insertSorted(s, x) ==
  IF s = <<>> THEN <<x>>
  ELSE IF strLess(x.s, Head(s).s) THEN <<x>> \o s
  ELSE <<Head(s)>> \o insertSorted(Tail(s), x)

RECURSIVE sort(_)
sort(s) ==
  IF s = <<>> THEN <<>> ELSE insertSorted(sort(Tail(s)), Head(s))

\* Array.prototype.reverse()
reverse(s) ==
  [i \in 1..Len(s) |-> s[Len(s) + 1 - i]]

(***************************************************************************)
(* path.join of two arguments (POSIX).                                     *)
(***************************************************************************)
\* The segments of a path between its slashes, empty segments included.
RECURSIVE splitSlash(_, _)
splitSlash(p, cur) ==
  IF p = <<>> THEN <<cur>>
  ELSE IF Head(p) = "/" THEN <<cur>> \o splitSlash(Tail(p), <<>>)
  ELSE splitSlash(Tail(p), Append(cur, Head(p)))

\* normalizeString: drop empty and "." segments, let ".." remove the
\* segment before it (above the root of an absolute path it is dropped,
\* in a relative path it is kept).
RECURSIVE normalizeSegments(_, _, _)
normalizeSegments(segs, acc, allowAboveRoot) ==
  IF segs = <<>> THEN acc
  ELSE LET s == Head(segs)
           rest == Tail(segs)
       IN IF s = <<>> \/ s = <<".">> THEN normalizeSegments(rest, acc, allowAboveRoot)
          ELSE IF s = <<".", ".">>
            THEN IF acc # <<>> /\ acc[Len(acc)] # <<".", ".">>
                   THEN normalizeSegments(rest, SubSeq(acc, 1, Len(acc) - 1), allowAboveRoot)
                   ELSE IF allowAboveRoot
                     THEN normalizeSegments(rest, Append(acc, s), allowAboveRoot)
                     ELSE normalizeSegments(rest, acc, allowAboveRoot)
          ELSE normalizeSegments(rest, Append(acc, s), allowAboveRoot)

RECURSIVE joinSegments(_)
joinSegments(segs) ==
  IF segs = <<>> THEN <<>>
  ELSE IF Len(segs) = 1 THEN Head(segs)
  ELSE Head(segs) \o <<"/">> \o joinSegments(Tail(segs))

\* path.normalize
pathNormalize(p) ==
  IF p = <<>> THEN <<".">>
  ELSE LET isAbsolute == p[1] = "/"
           trailingSeparator == p[Len(p)] = "/"
           body == joinSegments(normalizeSegments(splitSlash(p, <<>>), <<>>, ~isAbsolute))
           body1 == IF body = <<>> /\ ~isAbsolute THEN <<".">> ELSE body
           body2 == IF body1 # <<>> /\ trailingSeparator THEN Append(body1, "/") ELSE body1
       IN IF isAbsolute THEN <<"/">> \o body2 ELSE body2

\* path.join(a, b): empty arguments are skipped, the rest joined by "/"
\* and normalized.
pathJoin(a, b) ==
  LET joined == IF a = <<>> THEN b
                ELSE IF b = <<>> THEN a
                ELSE a \o <<"/">> \o b
  IN IF joined = <<>> THEN <<".">> ELSE pathNormalize(joined)

(***************************************************************************)
(* Values.                                                                 *)
(***************************************************************************)
\* undefined, as the value of an absent property or result.
Undefined == [t |-> "undefined"]

\* The filesystem used for aliases without one of their own (nodeFS).
nodeFS == "nodeFS"

\* A JavaScript string as a value.
str(s) == [t |-> "string", s |-> s]

\* A concrete filesystem object.
fsObj(id) == [t |-> "fs", id |-> id]

\* An object with an alias and a filesystem property (either may be
\* undefined).
aliasObj(alias, filesystem) == [t |-> "object", alias |-> alias, filesystem |-> filesystem]

\* fs.alias: undefined on a filesystem object.
aliasOf(fs) == IF fs.t = "object" THEN fs.alias ELSE Undefined

\* fs.filesystem
filesystemOf(fs) == IF fs.t = "object" THEN fs.filesystem ELSE Undefined

\* Truthiness: undefined and the empty string are falsy.
truthy(v) == v.t # "undefined" /\ ~(v.t = "string" /\ v.s = <<>>)

(***************************************************************************)
(* ensureStartsWithSlash, ensureArray.                                     *)
(***************************************************************************)
\* A normalizer that prepends a slash whatever the path begins with.
ensureStartsWithSlashAlwaysPrepending(somepath) ==
  <<"/">> \o somepath

ensureStartsWithSlash(somepath) ==
  IF Len(somepath) >= 2 /\ somepath[1] = "." /\ somepath[2] = "/"
    THEN slice(somepath, 1)
  ELSE IF Len(somepath) = 0 \/ somepath[1] # "/"
    THEN <<"/">> \o somepath
  ELSE somepath

\* A mapping's value is an array of descriptors or one descriptor.
arrayOf(items) == [t |-> "array", items |-> items]

ensureArray(possiblyArray) ==
  IF possiblyArray.t # "array" THEN <<possiblyArray>> ELSE possiblyArray.items

(***************************************************************************)
(* Plain objects used as dictionaries: a sequence of <<key, value>> in     *)
(* insertion order, keys distinct.                                         *)
(***************************************************************************)
objHas(obj, k) == \E i \in 1..Len(obj) : obj[i][1] = k

objGet(obj, k) == obj[CHOOSE i \in 1..Len(obj) : obj[i][1] = k][2]

\* obj[k] = v: an existing key keeps its place.
objSet(obj, k, v) ==
  IF objHas(obj, k)
    THEN [i \in 1..Len(obj) |-> IF obj[i][1] = k THEN <<k, v>> ELSE obj[i]]
    ELSE Append(obj, <<k, v>>)

\* Object.keys(obj)
objKeys(obj) == [i \in 1..Len(obj) |-> str(obj[i][1])]

(***************************************************************************)
(* The heap: Array objects (lists of descriptors), Map objects (entries    *)
(* <<mount path, array identity>> in insertion order) and MergedFileSystem *)
(* objects.  An identity is an index into its heap.                        *)
(***************************************************************************)
VARIABLES arrays, maps, objs, cloneRef

regVars == <<arrays, maps, objs, cloneRef>>

\* The heap as one value, for the operators below.
Heap == [arrays |-> arrays, maps |-> maps, objs |-> objs]

\* A value of mountPointsToAdd: a new array (ref = 0) or an array of the
\* heap.
newArray(val) == [ref |-> 0, val |-> val]
heapArray(ref, val) == [ref |-> ref, val |-> val]

\* The callback of the map over a mapping's descriptors (lines 84-100).
cleanupDescriptor(fs) ==
  LET result == IF fs.t = "string" THEN aliasObj(fs, Undefined) ELSE fs
  IN IF truthy(aliasOf(result))
       THEN [result EXCEPT !.alias = str(ensureStartsWithSlash(@.s))]
       ELSE result

\* "Cleanup input": mountPointsToAdd after the loop over the mapping's
\* keys, in their enumeration order.
RECURSIVE cleanupInput(_, _)
cleanupInput(newMountPoints, mountPointsToAdd) ==
  IF newMountPoints = <<>> THEN mountPointsToAdd
  ELSE LET mountPath == Head(newMountPoints)[1]
           value == Head(newMountPoints)[2]
           newMountPath == ensureStartsWithSlash(mountPath)
           list == ensureArray(value)
           cleaned == [i \in 1..Len(list) |-> cleanupDescriptor(list[i])]
       IN cleanupInput(Tail(newMountPoints),
                       objSet(mountPointsToAdd, newMountPath, newArray(cleaned)))

\* A concat that puts the list already registered first.
concatMountsOldFirst(new, old) == old \o new

\* b.concat(a)'s result for a new list and the list already registered.
concatMounts(new, old) == new \o old

\* "Add existing mount points to new ones": the loop over the old Map.
RECURSIVE addExisting(_, _, _)
addExisting(h, oldEntries, mountPointsToAdd) ==
  IF oldEntries = <<>> THEN mountPointsToAdd
  ELSE LET mountPath == Head(oldEntries)[1]
           ref == Head(oldEntries)[2]
           filesystems == h.arrays[ref]
       IN addExisting(h, Tail(oldEntries),
            IF objHas(mountPointsToAdd, mountPath)
              THEN objSet(mountPointsToAdd, mountPath,
                     newArray(concatMounts(objGet(mountPointsToAdd, mountPath).val, filesystems)))
              ELSE objSet(mountPointsToAdd, mountPath, heapArray(ref, filesystems)))

\* An insertion order without the reverse().
mountOrderAscending(keys) == sort(keys)

\* An insertion order that takes the keys as Object.keys gives them.
mountOrderAsEnumerated(keys) == keys

\* The order in which the mount paths are inserted into the new Map.
mountOrder(keys) == reverse(sort(keys))

\* The insertions into the new Map: every new array takes the next
\* identity of the heap.
RECURSIVE insertAll(_, _, _, _)
insertAll(arrs, entries, keys, mountPointsToAdd) ==
  IF keys = <<>> THEN [arrays |-> arrs, entries |-> entries]
  ELSE LET mountPath == Head(keys).s
           v == objGet(mountPointsToAdd, mountPath)
       IN IF v.ref = 0
            THEN insertAll(Append(arrs, v.val),
                           Append(entries, <<mountPath, Len(arrs) + 1>>),
                           Tail(keys), mountPointsToAdd)
            ELSE insertAll(arrs, Append(entries, <<mountPath, v.ref>>),
                           Tail(keys), mountPointsToAdd)

\* this.addMountPoints(newMountPoints) on object o: the heap afterwards.
addMountPoints(h, o, newMountPoints) ==
  LET oldMountedPaths == h.maps[h.objs[o].mountedPaths]
      cleaned == cleanupInput(newMountPoints, <<>>)
      mountPointsToAdd == addExisting(h, oldMountedPaths, cleaned)
      ins == insertAll(h.arrays, <<>>, mountOrder(objKeys(mountPointsToAdd)), mountPointsToAdd)
  IN [arrays |-> ins.arrays,
      maps |-> Append(h.maps, ins.entries),
      objs |-> [h.objs EXCEPT ![o].mountedPaths = Len(h.maps) + 1]]

\* this.addMountPoint(newMountPoint, filesystem)
addMountPoint(h, o, newMountPoint, filesystem) ==
  addMountPoints(h, o, << <<newMountPoint, filesystem>> >>)

\* new MergedFileSystem(initialFilesystemsByMountPath, rootFS): the new
\* object is the last of the heap's.
construct(h, initialFilesystemsByMountPath, rootFS) ==
  LET h1 == [arrays |-> h.arrays,
             maps |-> Append(h.maps, <<>>),
             objs |-> Append(h.objs, [mountedPaths |-> Len(h.maps) + 1, rootFS |-> rootFS])]
  IN addMountPoints(h1, Len(h1.objs), initialFilesystemsByMountPath)

\* The entries of the clone's Map: each value replaced by its slice().
RECURSIVE sliceAll(_, _, _)
sliceAll(arrs, entries, done) ==
  IF entries = <<>> THEN [arrays |-> arrs, entries |-> done]
  ELSE sliceAll(Append(arrs, arrs[Head(entries)[2]]),
                Tail(entries),
                Append(done, <<Head(entries)[1], Len(arrs) + 1>>))

\* A clone() that hands back the object it was called on.
cloneReturningThis(h, o) ==
  [heap |-> h, result |-> o]

\* this.clone() on object o: the heap afterwards and the object returned.
clone(h, o) ==
  LET h1 == construct(h, <<>>, h.objs[o].rootFS)
      c == Len(h1.objs)
      copied == sliceAll(h1.arrays, h1.maps[h1.objs[o].mountedPaths], <<>>)
  IN [heap |-> [arrays |-> copied.arrays,
                maps |-> Append(h1.maps, copied.entries),
                objs |-> [h1.objs EXCEPT ![c].mountedPaths = Len(h1.maps) + 1]],
      result |-> c]

\* The mount table of object o as the code reads it: the Map's entries in
\* iteration order, each with its list of descriptors.
Table(h, o) ==
  LET m == h.maps[h.objs[o].mountedPaths]
  IN [i \in 1..Len(m) |-> <<m[i][1], h.arrays[m[i][2]]>>]

(***************************************************************************)
(* _gatherStuffToIterateOver.                                              *)
(***************************************************************************)
\* The entry pushed for one filesystem of a matching mount path.
candidateOf(mountPath, fs, subpath, rootFS) ==
  IF truthy(aliasOf(fs))
    THEN [mountPath |-> mountPath,
          filesystem |-> IF truthy(filesystemOf(fs)) THEN filesystemOf(fs) ELSE rootFS,
          subpath |-> pathJoin(aliasOf(fs).s, subpath),
          alias |-> aliasOf(fs)]
    ELSE [mountPath |-> mountPath,
          filesystem |-> fs,
          subpath |-> subpath,
          alias |-> Undefined]

\* A subpath that keeps the mount path.
subpathOfKeepingMount(mountPath, filepath) == filepath

\* The part of filepath handed on below a matching mount path.
subpathOf(mountPath, filepath) ==
  IF mountPath = <<"/">> THEN filepath ELSE slice(filepath, Len(mountPath))

RECURSIVE gatherStuffToIterateOver(_, _, _)
gatherStuffToIterateOver(table, rootFS, filepath) ==
  IF table = <<>> THEN <<>>
  ELSE LET mountPath == Head(table)[1]
           filesystems == Head(table)[2]
           subpath == subpathOf(mountPath, filepath)
           here == IF startsWith(filepath, mountPath)
                     THEN [i \in 1..Len(filesystems) |->
                             candidateOf(mountPath, filesystems[i], subpath, rootFS)]
                     ELSE <<>>
       IN here \o gatherStuffToIterateOver(Tail(table), rootFS, filepath)

\* The candidates of filepath on object o.
Candidates(h, o, filepath) ==
  gatherStuffToIterateOver(Table(h, o), h.objs[o].rootFS, filepath)

(***************************************************************************)
(* Inputs.                                                                 *)
(***************************************************************************)
\* Mappings given to the constructor.
InitialMappings ==
  { << <<<<"/">>, fsObj(nodeFS)>> >>,
    << <<<<"/", "f">>, arrayOf(<<str(<<"/", "x">>), str(<<"/", "a">>)>>)>> >>,
    << <<<<"/", "a">>, str(<<"/", "x">>)>>, <<<<"/">>, fsObj(nodeFS)>> >>,
    << <<<<"/", "a">>, arrayOf(<<fsObj("A"), fsObj("B")>>)>> >>,
    << <<<<"/", "a">>, arrayOf(<<fsObj("N"), fsObj("A")>>)>>, <<<<"/">>, fsObj("B")>> >>,
    << <<<<"/", "f">>, arrayOf(<<str(<<"/", "a">>), str(<<"/", "b">>), str(<<"/", "x">>)>>)>>,
       <<<<"/">>, str(<<"/", "x">>)>> >>,
    << <<<<"/", "a">>, aliasObj(str(<<"x">>), fsObj("A"))>>, <<<<"/", "a", "/", "b">>, fsObj("B")>> >>,
    << <<<<"/", "a">>, str(<<>>)>> >>,
    << <<<<"/", "f">>, arrayOf(<<fsObj("T"), fsObj("T")>>)>> >>,
    << <<<<"/", "a">>, arrayOf(<<fsObj("A"), fsObj("N")>>)>>,
       <<<<"/">>, arrayOf(<<fsObj("B"), fsObj("N")>>)>> >>,
    << <<<<"/", "x">>, fsObj("N")>> >>,
    << >> }

\* Mappings given to addMountPoints.
AddedMappings ==
  {
    << <<<<"/", "a">>, str(<<"b">>)>>, <<<<"/">>, fsObj(nodeFS)>> >>,
    << <<<<"a">>, fsObj("A")>>, <<<<"/", "a">>, fsObj("B")>> >>,
    << <<<<"/", "a", "b">>, arrayOf(<<fsObj("B"), fsObj("A")>>)>>, <<<<"/", "b">>, fsObj("A")>> >> }

\* Arguments given to addMountPoint.
AddedMountPaths == { <<"/">>, <<".", "/", "a", "/", "b">> }

AddedFilesystems == { arrayOf(<<str(<<"/", "x">>), fsObj("B")>>) }

\* Paths asked for.
RequestPaths ==
  { <<"/", "a", "/", "x">>, <<"a", "/", "b", "/", "x">>, <<"/", "x">>, <<".", "/", "f", "/", "x">>,
    <<"/", "a", "b">>, <<"/", "a">>, <<>> }

(***************************************************************************)
(* The registry's operations.                                              *)
(***************************************************************************)
\* The object the caller built; clone() results are referred to by
\* cloneRef (0: none yet).
original == 1

Handles == {original} \cup (IF cloneRef = 0 THEN {} ELSE {cloneRef})

\* The calls of addMountPoints after the constructions: a construction
\* makes two Map objects, a clone one more, a registration one.
RegistrationsMade == Len(maps) - 2 * Len(objs) - (Len(objs) - 1)

RegistryInit ==
  \E m \in InitialMappings :
    LET h == construct([arrays |-> <<>>, maps |-> <<>>, objs |-> <<>>], m, fsObj(nodeFS))
    IN /\ arrays = h.arrays
       /\ maps = h.maps
       /\ objs = h.objs
       /\ cloneRef = 0

AddMountPoints(o, m) ==
  /\ RegistrationsMade < MaxRegistrations
  /\ LET h == addMountPoints(Heap, o, m)
     IN /\ arrays' = h.arrays
        /\ maps' = h.maps
        /\ objs' = h.objs
  /\ UNCHANGED cloneRef

AddMountPoint(o, newMountPoint, filesystem) ==
  /\ RegistrationsMade < MaxRegistrations
  /\ LET h == addMountPoint(Heap, o, newMountPoint, filesystem)
     IN /\ arrays' = h.arrays
        /\ maps' = h.maps
        /\ objs' = h.objs
  /\ UNCHANGED cloneRef

Clone(o) ==
  /\ Len(objs) < MaxObjects
  /\ LET c == clone(Heap, o)
     IN /\ arrays' = c.heap.arrays
        /\ maps' = c.heap.maps
        /\ objs' = c.heap.objs
        /\ cloneRef' = c.result

(***************************************************************************)
(* SUPPORTED_FS_FUNCTIONS and the merge of directory listings.             *)
(***************************************************************************)
FuncNames == {"stat", "readFile", "readlink", "readdir"}

returnFirstValue(funcName) == funcName # "readdir"

hasMergeResults(funcName) == funcName = "readdir"

\* An array as a value.
array(items) == [t |-> "array", items |-> items]

\* lodash compact: the truthy elements.
compact(arr) == SelectSeq(arr, truthy)

\* lodash flatten: one level.
RECURSIVE flatten(_)
flatten(arr) ==
  IF arr = <<>> THEN <<>>
  ELSE (IF Head(arr).t = "array" THEN Head(arr).items ELSE <<Head(arr)>>) \o flatten(Tail(arr))

\* lodash uniq: the first occurrence of each element, in order.
RECURSIVE uniqueFrom(_, _)
uniqueFrom(arr, seen) ==
  IF arr = <<>> THEN seen
  ELSE IF \E i \in 1..Len(seen) : seen[i] = Head(arr)
    THEN uniqueFrom(Tail(arr), seen)
    ELSE uniqueFrom(Tail(arr), Append(seen, Head(arr)))

unique(arr) == uniqueFrom(arr, <<>>)

\* mergeResults that keeps the duplicates.
mergeResultsWithoutUnique(errors, results) ==
  IF Len(errors) > 0 /\ Len(compact(results)) = 0
    THEN <<errors[1], Undefined>>
    ELSE <<Undefined, array(sort(compact(flatten(results))))>>

\* mergeResults that leaves the names in the order met.
mergeResultsUnsorted(errors, results) ==
  IF Len(errors) > 0 /\ Len(compact(results)) = 0
    THEN <<errors[1], Undefined>>
    ELSE <<Undefined, array(unique(compact(flatten(results))))>>

\* readdir's mergeResults: <<mergedError, mergedResult>>.
mergeResults(errors, results) ==
  IF Len(errors) > 0 /\ Len(compact(results)) = 0
    THEN <<errors[1], Undefined>>
    ELSE <<Undefined, array(sort(unique(compact(flatten(results)))))>>

(***************************************************************************)
(* Filesystems and what they answer.                                       *)
(***************************************************************************)
\* filesystem[name] is a function: A, B and nodeFS have every function, N
\* and an object that is only a (falsy) alias have none.
implements(filesystem, name) ==
  filesystem.t = "fs" /\ filesystem.id # "N"

\* The non-blocking functions of filesystem T throw when called, instead of
\* calling back.
throwsWhenCalled(filesystem) ==
  filesystem.t = "fs" /\ filesystem.id = "T"

\* The value candidate i yields, the failure it raises.
valueOf(i) == [t |-> "value", of |-> i]
failureOf(i) == [t |-> "error", k |-> "backend", of |-> i]

\* new Error('filessytem has no such function: ...') made for candidate i.
noSuchFunction(i) == [t |-> "error", k |-> "no such function", of |-> i]

\* new Error(`No mount points match: ...`)
noMountPointsMatch == [t |-> "error", k |-> "No mount points match", of |-> 0]

\* Directory listings a filesystem may yield.
Listings ==
  { array(<<str(<<"F">>), str(<<"Y">>)>>),
    array(<<str(<<"A">>), str(<<"F">>)>>),
    array(<<>>) }

\* What candidate i's filesystem may answer to funcName: a defined result,
\* a failure, or neither.
Outcomes(funcName, i) ==
  (IF funcName = "readdir" THEN Listings ELSE {valueOf(i)}) \cup {failureOf(i), Undefined}

isError(v) == v.t = "error"

\* The vectors of answers of n candidates.
RECURSIVE OutcomeVectors(_, _)
OutcomeVectors(funcName, n) ==
  IF n = 0 THEN {<<>>}
  ELSE {Append(v, o) : v \in OutcomeVectors(funcName, n - 1), o \in Outcomes(funcName, n)}

(***************************************************************************)
(* The blocking call: _callSyncFunc over _iterateOverFilesystemsSync.      *)
(* outcomes[i] is what candidate i's blocking function does when called.   *)
(***************************************************************************)
\* An iterCallback that records the result and never returns it.
syncIterCallbackNeverReturning(funcName, acc, i, c, outcome) ==
  IF implements(c.filesystem, funcName \o "Sync")
    THEN LET result == IF isError(outcome) THEN Undefined ELSE outcome
             error == IF isError(outcome) THEN outcome ELSE Undefined
         IN [acc |-> [acc EXCEPT !.results = Append(@, result),
                                 !.errors = Append(@, error),
                                 !.invoked = Append(@, i)],
             iterResult |-> Undefined]
    ELSE [acc |-> acc, iterResult |-> Undefined]

\* The iterCallback of _callSyncFunc on candidate i: the accumulators
\* afterwards and the value it returns.
syncIterCallback(funcName, acc, i, c, outcome) ==
  IF implements(c.filesystem, funcName \o "Sync")
    THEN LET result == IF isError(outcome) THEN Undefined ELSE outcome
             error == IF isError(outcome) THEN outcome ELSE Undefined
             acc1 == [acc EXCEPT !.results = Append(@, result),
                                 !.errors = Append(@, error),
                                 !.invoked = Append(@, i)]
         IN [acc |-> acc1,
             iterResult |-> IF returnFirstValue(funcName) /\ result # Undefined
                              THEN result ELSE Undefined]
    ELSE [acc |-> acc, iterResult |-> Undefined]

\* The loop of _iterateOverFilesystemsSync from candidate i on.
RECURSIVE iterateOverFilesystemsSync(_, _, _, _, _)
iterateOverFilesystemsSync(funcName, toIterateOver, outcomes, i, acc) ==
  IF i > Len(toIterateOver) THEN [acc |-> acc, finalResult |-> Undefined]
  ELSE LET step == syncIterCallback(funcName, acc, i, toIterateOver[i], outcomes[i])
       IN IF step.iterResult # Undefined
            THEN [acc |-> step.acc, finalResult |-> step.iterResult]
            ELSE iterateOverFilesystemsSync(funcName, toIterateOver, outcomes, i + 1, step.acc)

returned(v, invoked) == [kind |-> "returned", value |-> v, invoked |-> invoked]
thrown(v, invoked) == [kind |-> "thrown", value |-> v, invoked |-> invoked]

\* _callSyncFunc: what the caller gets, and the candidates invoked.
callSyncFunc(funcName, toIterateOver, outcomes) ==
  IF Len(toIterateOver) = 0 THEN thrown(noMountPointsMatch, <<>>)
  ELSE LET it == iterateOverFilesystemsSync(funcName, toIterateOver, outcomes, 1,
                   [errors |-> <<>>, results |-> <<>>, invoked |-> <<>>])
           errors == it.acc.errors
           results == it.acc.results
           merged == mergeResults(errors, results)
       IN IF hasMergeResults(funcName)
            THEN IF merged[2] = Undefined /\ truthy(merged[1])
                   THEN thrown(merged[1], it.acc.invoked)
                   ELSE returned(merged[2], it.acc.invoked)
          ELSE IF it.finalResult = Undefined
            THEN thrown(IF errors = <<>> THEN Undefined ELSE errors[1], it.acc.invoked)
          ELSE returned(it.finalResult, it.acc.invoked)

(***************************************************************************)
(* The non-blocking call: _callAsyncFunc over _iterateOverFilesystemsAsync.*)
(* A run is the state of the closures of one call.                         *)
(***************************************************************************)
\* No answer recorded for a candidate.
NotInvoked == [t |-> "not invoked"]

\* The closures right after _callAsyncFunc has gathered its candidates.
newRun(funcName, filepath, toIterateOver) ==
  [pc |-> "running",
   funcName |-> funcName,
   filepath |-> filepath,
   toIterateOver |-> toIterateOver,
   index |-> 0,
   collectedErrors |-> <<>>,
   collectedResults |-> <<>>,
   errors |-> <<>>,
   results |-> <<>>,
   stoppedEarly |-> FALSE,
   \* a filesystem function of this call has been called and has not yet
   \* called back
   inFlight |-> FALSE,
   \* the candidates whose filesystem function was called, in order
   started |-> <<>>,
   \* what each candidate called back with
   answers |-> [i \in 1..Len(toIterateOver) |-> NotInvoked],
   \* the calls of the caller's callback: <<error, result>>, in order
   callbackCalls |-> <<>>,
   \* the exception that left the call (pc = "threw")
   exception |-> Undefined,
   \* the Map the candidates were gathered from (0: none)
   mountedPaths |-> 0,
   \* the calls filesystem[funcName](subpath, ...) made, in order
   invoked |-> <<>>]

\* No call made.
idleRun ==
  [newRun("", <<>>, <<>>) EXCEPT !.pc = "idle"]

\* callback(error, result)
callback(run, error, result) ==
  [run EXCEPT !.callbackCalls = Append(@, <<error, result>>)]

\* doneIteration without the stoppedEarly test.
doneIterationAlways(run, outsideError) ==
  IF hasMergeResults(run.funcName)
    THEN LET merged == mergeResults(run.errors, run.results)
         IN callback(run, merged[1], merged[2])
    ELSE LET errorToReturn == IF truthy(outsideError) THEN outsideError ELSE array(run.errors)
         IN callback(run,
                     IF errorToReturn.t = "array"
                       THEN (IF errorToReturn.items = <<>> THEN Undefined ELSE errorToReturn.items[1])
                       ELSE errorToReturn,
                     Undefined)

\* doneIteration passing on the whole collection of failures.
doneIterationAllErrors(run, outsideError) ==
  IF hasMergeResults(run.funcName)
    THEN LET merged == mergeResults(run.errors, run.results)
         IN callback(run, merged[1], merged[2])
  ELSE IF ~run.stoppedEarly
    THEN callback(run, IF truthy(outsideError) THEN outsideError ELSE array(run.errors), Undefined)
  ELSE run

\* The doneCallback of _callAsyncFunc.
doneIteration(run, outsideError) ==
  IF hasMergeResults(run.funcName)
    THEN LET merged == mergeResults(run.errors, run.results)
         IN callback(run, merged[1], merged[2])
  ELSE IF ~run.stoppedEarly
    THEN LET errorToReturn == IF truthy(outsideError) THEN outsideError ELSE array(run.errors)
         IN callback(run,
                     IF errorToReturn.t = "array"
                       THEN (IF errorToReturn.items = <<>> THEN Undefined ELSE errorToReturn.items[1])
                       ELSE errorToReturn,
                     Undefined)
  ELSE run

RECURSIVE next(_, _, _, _)
RECURSIVE iterate(_)

\* An iterCallback that goes on to the next candidate as soon as it has
\* called the filesystem's function.
iterCallbackFanningOut(run, c) ==
  IF ~implements(c.filesystem, run.funcName)
    THEN next(run, noSuchFunction(run.index + 1), Undefined, FALSE)
  ELSE IF throwsWhenCalled(c.filesystem)
    THEN [run EXCEPT !.pc = "threw",
                     !.started = Append(@, run.index + 1),
                     !.invoked = Append(@, [filesystem |-> c.filesystem, subpath |-> c.subpath]),
                     !.exception = failureOf(run.index + 1)]
    ELSE LET r1 == [run EXCEPT !.inFlight = TRUE,
                               !.invoked = Append(@, [filesystem |-> c.filesystem,
                                                      subpath |-> c.subpath]),
                               !.started = Append(@, run.index + 1)]
         IN IF r1.index < Len(r1.toIterateOver) - 1
              THEN iterate([r1 EXCEPT !.index = @ + 1])
              ELSE r1

\* An iterCallback that ends the chain at a candidate without the function.
iterCallbackFatalWithoutFunction(run, c) ==
  IF ~implements(c.filesystem, run.funcName)
    THEN doneIteration(run, noSuchFunction(run.index + 1))
  ELSE IF throwsWhenCalled(c.filesystem)
    THEN [run EXCEPT !.pc = "threw",
                     !.started = Append(@, run.index + 1),
                     !.invoked = Append(@, [filesystem |-> c.filesystem, subpath |-> c.subpath]),
                     !.exception = failureOf(run.index + 1)]
    ELSE [run EXCEPT !.inFlight = TRUE,
                     !.invoked = Append(@, [filesystem |-> c.filesystem, subpath |-> c.subpath]),
                     !.started = Append(@, run.index + 1)]

\* The iterCallback of _callAsyncFunc, up to the call of the filesystem's
\* function; an exception of that call is not caught anywhere and leaves
\* the non-blocking call.
iterCallback(run, c) ==
  IF ~implements(c.filesystem, run.funcName)
    THEN next(run, noSuchFunction(run.index + 1), Undefined, FALSE)
  ELSE IF throwsWhenCalled(c.filesystem)
    THEN [run EXCEPT !.pc = "threw",
                     !.started = Append(@, run.index + 1),
                     !.invoked = Append(@, [filesystem |-> c.filesystem, subpath |-> c.subpath]),
                     !.exception = failureOf(run.index + 1)]
    ELSE [run EXCEPT !.inFlight = TRUE,
                     !.invoked = Append(@, [filesystem |-> c.filesystem, subpath |-> c.subpath]),
                     !.started = Append(@, run.index + 1)]

\* next that goes on after a first value.
nextIgnoringStop(run, iterError, iterResult, stopIterating) ==
  LET r1 == [run EXCEPT !.collectedErrors = Append(@, iterError),
                        !.collectedResults = Append(@, iterResult)]
  IN IF r1.index = Len(r1.toIterateOver) - 1
       THEN doneIteration(r1, IF Len(r1.collectedErrors) > 0
                                THEN array(r1.collectedErrors) ELSE Undefined)
       ELSE iterate([r1 EXCEPT !.index = @ + 1])

\* next(iterError, iterResult, stopIterating) of _iterateOverFilesystemsAsync.
next(run, iterError, iterResult, stopIterating) ==
  LET r1 == [run EXCEPT !.collectedErrors = Append(@, iterError),
                        !.collectedResults = Append(@, iterResult)]
  IN IF stopIterating \/ r1.index = Len(r1.toIterateOver) - 1
       THEN doneIteration(r1, IF Len(r1.collectedErrors) > 0
                                THEN array(r1.collectedErrors) ELSE Undefined)
       ELSE iterate([r1 EXCEPT !.index = @ + 1])

\* An iterate() that looks its candidate up in the registry as it is now.
iterateRegathering(run) ==
  LET now == Candidates(Heap, original, run.filepath)
  IN iterCallback(run, IF run.index + 1 <= Len(now)
                         THEN now[run.index + 1]
                         ELSE run.toIterateOver[run.index + 1])

\* iterate() of _iterateOverFilesystemsAsync.
iterate(run) ==
  iterCallback(run, run.toIterateOver[run.index + 1])

\* The body of _iterateOverFilesystemsAsync after the gathering.
iterateOverFilesystemsAsync(run) ==
  IF Len(run.toIterateOver) > 0
    THEN iterate(run)
    ELSE doneIteration(run, noMountPointsMatch)

\* The callback _callAsyncFunc hands to the filesystem's function, called
\* with (error, result) by the candidate in flight.
filesystemCallback(run, error, result) ==
  LET r1 == [run EXCEPT !.inFlight = FALSE,
                        !.answers[run.index + 1] = IF error # Undefined THEN error ELSE result,
                        !.errors = Append(@, error),
                        !.results = Append(@, result)]
  IN IF truthy(error) THEN next(r1, error, Undefined, FALSE)
     ELSE IF result # Undefined
       THEN IF returnFirstValue(r1.funcName)
              THEN next([callback(r1, Undefined, result) EXCEPT !.stoppedEarly = TRUE],
                        error, result, TRUE)
              ELSE next(r1, error, result, FALSE)
     ELSE r1

(***************************************************************************)
(* The calls.                                                              *)
(***************************************************************************)
\* The requests that may be in flight.
Requests == {1, 2}

VARIABLES syncCall, asyncCall

callVars == <<syncCall, asyncCall>>

vars == <<arrays, maps, objs, cloneRef, syncCall, asyncCall>>

\* No blocking call made.
idleSync ==
  [pc |-> "idle", funcName |-> "", asked |-> <<>>, filepath |-> <<>>, toIterateOver |-> <<>>,
   outcomes |-> <<>>, outcome |-> returned(Undefined, <<>>)]

NoCallYet ==
  /\ syncCall.pc = "idle"
  /\ \A r \in Requests : asyncCall[r].pc = "idle"

Init ==
  /\ RegistryInit
  /\ syncCall = idleSync
  /\ asyncCall = [r \in Requests |-> idleRun]

\* fs.<funcName>Sync(filepath) on object o, the candidates' filesystems
\* answering by some vector of outcomes.
CallSync(o, funcName, filepath) ==
  /\ NoCallYet
  /\ LET normalized == ensureStartsWithSlash(filepath)
         toIterateOver == Candidates(Heap, o, normalized)
     IN \E outcomes \in OutcomeVectors(funcName, Len(toIterateOver)) :
           syncCall' = [pc |-> "done",
                        funcName |-> funcName,
                        asked |-> filepath,
                        filepath |-> normalized,
                        toIterateOver |-> toIterateOver,
                        outcomes |-> outcomes,
                        outcome |-> callSyncFunc(funcName, toIterateOver, outcomes)]
  /\ UNCHANGED <<regVars, asyncCall>>

\* fs.<funcName>(filepath, callback) on object o, as request r: up to the
\* first call of a filesystem's function (or to the end, if there is none).
CallAsync(r, o, funcName, filepath) ==
  /\ asyncCall[r].pc = "idle"
  /\ syncCall.pc = "idle"
  /\ LET normalized == ensureStartsWithSlash(filepath)
         toIterateOver == Candidates(Heap, o, normalized)
     IN asyncCall' = [asyncCall EXCEPT ![r] =
                        iterateOverFilesystemsAsync(
                          [newRun(funcName, normalized, toIterateOver)
                             EXCEPT !.mountedPaths = objs[o].mountedPaths])]
  /\ UNCHANGED <<regVars, syncCall>>

\* The callback of a filesystem pushing into accumulators that all the calls
\* share.
FilesystemCallsBackSharedAccumulators(r) ==
  /\ asyncCall[r].pc = "running"
  /\ asyncCall[r].inFlight
  /\ \E outcome \in Outcomes(asyncCall[r].funcName, asyncCall[r].index + 1) :
       LET error == IF isError(outcome) THEN outcome ELSE Undefined
           result == IF isError(outcome) THEN Undefined ELSE outcome
       IN asyncCall' = [q \in Requests |->
                          IF q = r THEN filesystemCallback(asyncCall[q], error, result)
                          ELSE [asyncCall[q] EXCEPT !.errors = Append(@, error),
                                                    !.results = Append(@, result)]]
  /\ UNCHANGED <<regVars, syncCall>>

\* The filesystem function in flight for request r calls back.
FilesystemCallsBack(r) ==
  /\ asyncCall[r].pc = "running"
  /\ asyncCall[r].inFlight
  /\ \E outcome \in Outcomes(asyncCall[r].funcName, asyncCall[r].index + 1) :
       asyncCall' = [asyncCall EXCEPT ![r] =
                       filesystemCallback(@,
                                          IF isError(outcome) THEN outcome ELSE Undefined,
                                          IF isError(outcome) THEN Undefined ELSE outcome)]
  /\ UNCHANGED <<regVars, syncCall>>

\* One call, blocking or not, on the registry as constructed.
Next ==
  \/ \E f \in FuncNames, p \in RequestPaths : CallSync(original, f, p)
  \/ \E f \in FuncNames, p \in RequestPaths : /\ NoCallYet
                                              /\ CallAsync(1, original, f, p)
  \/ FilesystemCallsBack(1)

Spec == Init /\ [][Next]_vars

\* The registry's operations alone.
NextRegistry ==
  \/ \E o \in Handles, m \in AddedMappings : AddMountPoints(o, m) /\ UNCHANGED callVars
  \/ \E o \in Handles, p \in AddedMountPaths, f \in AddedFilesystems :
       AddMountPoint(o, p, f) /\ UNCHANGED callVars
  \/ \E o \in Handles : Clone(o) /\ UNCHANGED callVars

SpecRegistry == Init /\ [][NextRegistry]_vars

(***************************************************************************)
(* Properties.                                                             *)
(***************************************************************************)
\* The run of request 1.
run1 == asyncCall[1]

\* A defined result: neither a failure nor undefined.
isDefinedResult(v) == ~isError(v) /\ v # Undefined

\* The candidates among the first n of a list whose filesystem has the
\* function, in order.
implementingUpTo(toIterateOver, name, n) ==
  SelectSeq([i \in 1..n |-> i], LAMBDA i : implements(toIterateOver[i].filesystem, name))

\* The elements of a sequence.
Range(seq) == {seq[i] : i \in 1..Len(seq)}

\* items holds exactly the names of the set, each once, in ascending order.
isSortedListingOf(items, names) ==
  /\ Range(items) = names
  /\ \A i \in 1..Len(items) - 1 : strLess(items[i].s, items[i + 1].s)

\* The names of the defined listings among some answers.
namesIn(answerSet) ==
  UNION {Range(a.items) : a \in {b \in answerSet : b.t = "array"}}

----
\* C1: a blocking stat / readFile / readlink whose candidates include one that
\* has the function and returns a defined value returns the value of the first
\* such candidate; the failures of earlier candidates are not raised, and the
\* candidates invoked are exactly those having the function up to that one.
C1_SyncReturnsFirstDefined ==
  (/\ syncCall.pc = "done"
   /\ returnFirstValue(syncCall.funcName))
  => \A k \in 1..Len(syncCall.toIterateOver) :
       (/\ implements(syncCall.toIterateOver[k].filesystem, syncCall.funcName)
        /\ isDefinedResult(syncCall.outcomes[k])
        /\ \A j \in 1..(k - 1) :
             ~(/\ implements(syncCall.toIterateOver[j].filesystem, syncCall.funcName)
               /\ isDefinedResult(syncCall.outcomes[j])))
       => /\ syncCall.outcome.kind = "returned"
          /\ syncCall.outcome.value = syncCall.outcomes[k]
          /\ syncCall.outcome.invoked =
               implementingUpTo(syncCall.toIterateOver, syncCall.funcName, k)

\* C1's case: the second of at least three candidates is the first to return a
\* value, after the first one threw.
C1_Witness ==
  /\ syncCall.pc = "done"
  /\ returnFirstValue(syncCall.funcName)
  /\ Len(syncCall.toIterateOver) >= 3
  /\ implements(syncCall.toIterateOver[1].filesystem, syncCall.funcName)
  /\ isError(syncCall.outcomes[1])
  /\ isDefinedResult(syncCall.outcomes[2])
  /\ syncCall.outcome = returned(syncCall.outcomes[2], <<1, 2>>)

----
----
\* C3: a non-blocking call calls the caller's callback at most once (every
\* filesystem calling back at most once); a readdir calls it only when the
\* chain is exhausted.
C3_CallbackAtMostOnce ==
  (run1.pc = "running")
  => /\ Len(run1.callbackCalls) <= 1
     /\ (run1.funcName = "readdir" /\ run1.callbackCalls # <<>> /\ Len(run1.toIterateOver) > 0)
        => /\ run1.index = Len(run1.toIterateOver) - 1
           /\ ~run1.inFlight
           /\ Len(run1.collectedErrors) = Len(run1.toIterateOver)

\* C3's case: the chain was stopped by a first value after a failure, the
\* done callback has run, and the caller was called once.
C3_Witness ==
  /\ run1.pc = "running"
  /\ run1.stoppedEarly
  /\ Len(run1.collectedErrors) >= 2
  /\ run1.index < Len(run1.toIterateOver) - 1
  /\ Len(run1.callbackCalls) = 1

----
\* C4: in a non-blocking stat / readFile / readlink, once a candidate has
\* called back with a defined result the caller has been called with that
\* result and no later candidate is started; a candidate that calls back
\* with an error, and is not the last, makes the chain go on to the next
\* candidate, whose function (if it has it) is started.
C4_FirstValueStopsErrorAdvances ==
  (run1.pc = "running" /\ returnFirstValue(run1.funcName))
  => \A i \in 1..Len(run1.toIterateOver) :
       /\ isDefinedResult(run1.answers[i]) /\ run1.answers[i] # NotInvoked
          => /\ run1.callbackCalls = << <<Undefined, run1.answers[i]>> >>
             /\ ~run1.inFlight
             /\ run1.started # <<>>
             /\ run1.started[Len(run1.started)] = i
             /\ run1.index + 1 = i
       /\ (isError(run1.answers[i]) /\ i < Len(run1.toIterateOver))
          => /\ run1.index + 1 > i
             /\ implements(run1.toIterateOver[i + 1].filesystem, run1.funcName)
                => i + 1 \in Range(run1.started)

\* C4's case: the first candidate failed, the second yielded a value, a third
\* exists and was never started.
C4_Witness ==
  /\ run1.pc = "running"
  /\ returnFirstValue(run1.funcName)
  /\ Len(run1.toIterateOver) >= 3
  /\ isError(run1.answers[1])
  /\ isDefinedResult(run1.answers[2]) /\ run1.answers[2] # NotInvoked
  /\ implements(run1.toIterateOver[3].filesystem, run1.funcName)
  /\ run1.started = <<1, 2>>
  /\ run1.callbackCalls = << <<Undefined, run1.answers[2]>> >>

----
\* What the blocking call gives its caller, as the arguments of a callback.
asCallbackCall(outcome) ==
  IF outcome.kind = "returned" THEN <<Undefined, outcome.value>> ELSE <<outcome.value, Undefined>>

\* The non-blocking run has nothing in flight and every candidate has the
\* function in both forms.
settledOverImplementing(run) ==
  /\ run.pc = "running"
  /\ ~run.inFlight
  /\ Len(run.toIterateOver) > 0
  /\ \A i \in 1..Len(run.toIterateOver) : implements(run.toIterateOver[i].filesystem, run.funcName)

\* The blocking call on the run's candidates, answered by outcomes, invokes
\* the candidates the run started and gives its caller what the run gave.
agreesWithSync(run, outcomes) ==
  LET s == callSyncFunc(run.funcName, run.toIterateOver, outcomes)
  IN /\ s.invoked = run.started
     /\ run.callbackCalls = <<asCallbackCall(s)>>

\* C5: a non-blocking call that has come to rest has started the candidates
\* the blocking call invokes, in the same order, and has given its caller the
\* same result or failure, for the same registry, path and function and for
\* filesystems that answer the blocking form as they answered the
\* non-blocking one (with a value, a failure or neither).
C5_SyncAsyncAgree ==
  settledOverImplementing(run1)
  => \A outcomes \in OutcomeVectors(run1.funcName, Len(run1.toIterateOver)) :
       (\A i \in 1..Len(run1.toIterateOver) :
          run1.answers[i] # NotInvoked => outcomes[i] = run1.answers[i])
       => agreesWithSync(run1, outcomes)

----
\* a is a proper prefix of b.
strictPrefix(a, b) == startsWith(b, a) /\ a # b

\* The positions of a candidate list whose mount path is m.
positionsOf(candidates, m) ==
  {i \in 1..Len(candidates) : candidates[i].mountPath = m}

\* The candidates of mount path m are its descriptors, one each, in order.
candidatesMatch(candidates, m, filesystems) ==
  LET mine == SelectSeq(candidates, LAMBDA c : c.mountPath = m)
  IN /\ Len(mine) = Len(filesystems)
     /\ \A k \in 1..Len(mine) :
          IF truthy(aliasOf(filesystems[k]))
            THEN mine[k].alias = aliasOf(filesystems[k])
            ELSE mine[k].filesystem = filesystems[k] /\ mine[k].alias = Undefined

\* C6: on every registry object and for every path asked for, if mount paths
\* m1 and m2 are registered, m1 a proper prefix of m2, and the path is under
\* m2, the candidates hold all of m2's descriptors, in order, and then, later
\* in the list, all of m1's.
C6_NarrowerMountFirst ==
  \A o \in Handles, p \in RequestPaths :
    LET filepath == ensureStartsWithSlash(p)
        table == Table(Heap, o)
        candidates == Candidates(Heap, o, filepath)
    IN \A i, j \in 1..Len(table) :
         LET m1 == table[i][1]
             m2 == table[j][1]
         IN (strictPrefix(m1, m2) /\ startsWith(filepath, m2))
            => /\ candidatesMatch(candidates, m2, table[j][2])
               /\ candidatesMatch(candidates, m1, table[i][2])
               /\ \A a \in positionsOf(candidates, m2), b \in positionsOf(candidates, m1) : a < b

\* C6's case: /, /a and /a/b are registered, each with a descriptor, and the
\* candidates of /a/b/x come from /a/b, then /a, then /.
C6_Witness ==
  LET table == Table(Heap, original)
      candidates == Candidates(Heap, original, <<"/", "a", "/", "b", "/", "x">>)
  IN /\ Len(table) = 3
     /\ \A i \in 1..3 : table[i][2] # <<>>
     /\ candidates # <<>>
     /\ candidates[1].mountPath = <<"/", "a", "/", "b">>
     /\ candidates[Len(candidates)].mountPath = <<"/">>
     /\ positionsOf(candidates, <<"/", "a">>) # {}

----
\* The list registered for mount path m in a table.
listAt(table, m) ==
  table[CHOOSE i \in 1..Len(table) : table[i][1] = m][2]

hasMount(table, m) == \E i \in 1..Len(table) : table[i][1] = m

\* The keys of a mapping name pairwise distinct mount paths.
distinctMountPaths(m) ==
  \A i, j \in 1..Len(m) :
    ensureStartsWithSlash(m[i][1]) = ensureStartsWithSlash(m[j][1]) => i = j

\* The descriptors supplied under one key, as they are registered (a string
\* as an alias, an alias with its leading slash).
supplied(value) ==
  LET list == ensureArray(value)
  IN [k \in 1..Len(list) |-> cleanupDescriptor(list[k])]

\* In this step every mount path of the mapping that object o already had is
\* now registered with the supplied descriptors followed by the former list.
prependedOn(o, m) ==
  \A e \in Range(m) :
    LET mountPath == ensureStartsWithSlash(e[1])
    IN hasMount(Table(Heap, o), mountPath)
       => /\ hasMount(Table(Heap', o), mountPath)
          /\ listAt(Table(Heap', o), mountPath)
               = supplied(e[2]) \o listAt(Table(Heap, o), mountPath)

----
\* Some registration is made on object o in this step.
registrationOn(o) ==
  \/ \E m \in AddedMappings : AddMountPoints(o, m)
  \/ \E p \in AddedMountPaths, f \in AddedFilesystems : AddMountPoint(o, p, f)

\* This step leaves the mount table of the object referred to by ref, and
\* the candidates it gives for every path, as they were.
tableUnchanged(ref) ==
  /\ Table(Heap', ref) = Table(Heap, ref)
  /\ \A p \in RequestPaths :
       Candidates(Heap', ref, ensureStartsWithSlash(p))
         = Candidates(Heap, ref, ensureStartsWithSlash(p))

\* C8: after clone(), a registration made through the clone leaves the
\* original's mount table and candidates unchanged, and a registration made
\* through the original leaves the clone's unchanged.
C8_CloneIndependent ==
  [][cloneRef # 0
     => /\ registrationOn(cloneRef) => tableUnchanged(original)
        /\ registrationOn(original) => tableUnchanged(cloneRef)]_vars

\* C8's case: a clone exists and holds, for a mount path of the original, a
\* longer list than the original does.
C8_Witness ==
  /\ cloneRef # 0
  /\ \E i \in 1..Len(Table(Heap, original)) :
       LET m == Table(Heap, original)[i][1]
       IN /\ hasMount(Table(Heap, cloneRef), m)
          /\ Len(listAt(Table(Heap, cloneRef), m)) > Len(Table(Heap, original)[i][2])

----
----
\* C10: when all N candidates of a non-blocking stat / readFile / readlink
\* have failed, the error given to the caller's callback is the collection of
\* the N failures, in order.
C10_AllFailuresPassedOn ==
  (/\ run1.pc = "running"
   /\ returnFirstValue(run1.funcName)
   /\ Len(run1.toIterateOver) > 0
   /\ \A i \in 1..Len(run1.toIterateOver) : isError(run1.answers[i]))
  => /\ Len(run1.callbackCalls) = 1
     /\ run1.callbackCalls[1][1] =
          array([i \in 1..Len(run1.toIterateOver) |-> run1.answers[i]])

----
\* C11: when no mount path matches the path asked for (no candidates), each
\* of the four functions fails with "No mount points match": the blocking
\* form throws it, invoking no filesystem, and the non-blocking form calls
\* back once with it as the error and no result, starting no filesystem.
C11_NoMountPointsMatchFails ==
  /\ (syncCall.pc = "done" /\ syncCall.toIterateOver = <<>>)
     => syncCall.outcome = thrown(noMountPointsMatch, <<>>)
  /\ (run1.pc = "running" /\ run1.toIterateOver = <<>>)
     => /\ run1.callbackCalls = << <<noMountPointsMatch, Undefined>> >>
        /\ run1.started = <<>>

----
\* The first failure among the answers of the candidates listed in order.
firstFailure(answers, order) ==
  LET failing == SelectSeq(order, LAMBDA i : isError(answers[i]))
  IN IF failing = <<>> THEN Undefined ELSE answers[failing[1]]

\* C12: a readdirSync / readdir with at least one candidate fails exactly when
\* no candidate yielded a listing, and then with the first failure recorded;
\* when some candidate yielded a listing, the caller gets a listing and no
\* failure, whatever the other candidates did.
C12_ReaddirFailsIffNoListing ==
  /\ (syncCall.pc = "done" /\ syncCall.funcName = "readdir" /\ Len(syncCall.toIterateOver) > 0)
     => LET n == Len(syncCall.toIterateOver)
            has == implementingUpTo(syncCall.toIterateOver, "readdir", n)
        IN IF \E i \in Range(has) : syncCall.outcomes[i].t = "array"
             THEN /\ syncCall.outcome.kind = "returned"
                  /\ syncCall.outcome.value.t = "array"
             ELSE /\ syncCall.outcome.kind = "thrown"
                  /\ firstFailure(syncCall.outcomes, has) # Undefined
                     => syncCall.outcome.value = firstFailure(syncCall.outcomes, has)
  /\ (/\ run1.pc = "running" /\ run1.funcName = "readdir"
      /\ Len(run1.toIterateOver) > 0 /\ run1.callbackCalls # <<>>)
     => LET n == Len(run1.toIterateOver)
        IN IF \E i \in 1..n : run1.answers[i].t = "array"
             THEN /\ run1.callbackCalls[1][1] = Undefined
                  /\ run1.callbackCalls[1][2].t = "array"
             ELSE /\ isError(run1.callbackCalls[1][1])
                  /\ run1.callbackCalls[1][2] = Undefined
                  /\ firstFailure(run1.answers, run1.started) # Undefined
                     => run1.callbackCalls[1][1] = firstFailure(run1.answers, run1.started)

----
\* The candidates that come from the mount at /.
rootCandidates(toIterateOver) == positionsOf(toIterateOver, <<"/">>)

\* An answer of a working filesystem: where given, it is a defined result.
worksWhereAsked(answer) == answer = NotInvoked \/ (isDefinedResult(answer) /\ answer # NotInvoked)

\* What the caller gets from a lone concrete candidate that answered with v.
resultOfOnly(funcName, v) ==
  IF funcName = "readdir" THEN array(sort(unique(v.items))) ELSE v

\* C13: with a mount at / whose filesystem has the function and yields a
\* defined result whenever asked, every blocking call returns a defined result
\* and every non-blocking call that has come to rest has called back once with
\* no error and a defined result, whatever the candidates of the other mounts
\* answer; and when the only candidate is a concrete filesystem mounted at /,
\* it is asked for exactly the normalized path and the caller gets its result
\* (a listing deduplicated and sorted).
C13_RootFallthrough ==
  /\ (/\ syncCall.pc = "done"
      /\ rootCandidates(syncCall.toIterateOver) # {}
      /\ \A i \in rootCandidates(syncCall.toIterateOver) :
           /\ implements(syncCall.toIterateOver[i].filesystem, syncCall.funcName)
           /\ isDefinedResult(syncCall.outcomes[i]))
     => /\ syncCall.outcome.kind = "returned"
        /\ isDefinedResult(syncCall.outcome.value)
        /\ (Len(syncCall.toIterateOver) = 1 /\ syncCall.toIterateOver[1].alias = Undefined)
           => /\ syncCall.toIterateOver[1].subpath = syncCall.filepath
              /\ syncCall.outcome =
                   returned(resultOfOnly(syncCall.funcName, syncCall.outcomes[1]), <<1>>)
  /\ (/\ run1.pc = "running"
      /\ ~run1.inFlight
      /\ rootCandidates(run1.toIterateOver) # {}
      /\ \A i \in rootCandidates(run1.toIterateOver) :
           /\ implements(run1.toIterateOver[i].filesystem, run1.funcName)
           /\ worksWhereAsked(run1.answers[i]))
     => /\ Len(run1.callbackCalls) = 1
        /\ run1.callbackCalls[1][1] = Undefined
        /\ isDefinedResult(run1.callbackCalls[1][2])
        /\ (Len(run1.toIterateOver) = 1 /\ run1.toIterateOver[1].alias = Undefined)
           => /\ run1.toIterateOver[1].subpath = run1.filepath
              /\ run1.started = <<1>>
              /\ run1.callbackCalls[1][2] = resultOfOnly(run1.funcName, run1.answers[1])

----
\* The number of descriptors of the table's entries before entry i whose
\* mount path is a prefix of filepath.
RECURSIVE descriptorsBefore(_, _, _)
descriptorsBefore(table, filepath, i) ==
  IF i <= 1 THEN 0
  ELSE descriptorsBefore(table, filepath, i - 1)
       + (IF startsWith(filepath, table[i - 1][1]) THEN Len(table[i - 1][2]) ELSE 0)

\* filepath as handed on below mount path m: whole below /, otherwise
\* without m's characters.
baseSubpath(m, filepath) ==
  IF m = <<"/">> THEN filepath ELSE SubSeq(filepath, Len(m) + 1, Len(filepath))

\* C14: on every registry object and for every path asked for, the candidates
\* are, for each table entry in table order whose mount path is a prefix of
\* the normalized path, one per descriptor in list order and nothing else;
\* each carries its entry's mount path, and a concrete filesystem descriptor
\* is the candidate's filesystem, asked for the base subpath unchanged.
C14_CandidateList ==
  \A o \in Handles, p \in RequestPaths :
    LET filepath == ensureStartsWithSlash(p)
        table == Table(Heap, o)
        candidates == Candidates(Heap, o, filepath)
    IN /\ Len(candidates) = descriptorsBefore(table, filepath, Len(table) + 1)
       /\ \A i \in 1..Len(table) :
            startsWith(filepath, table[i][1])
            => \A k \in 1..Len(table[i][2]) :
                 LET c == candidates[descriptorsBefore(table, filepath, i) + k]
                     d == table[i][2][k]
                 IN /\ c.mountPath = table[i][1]
                    /\ ~truthy(aliasOf(d))
                       => /\ c.filesystem = d
                          /\ c.subpath = baseSubpath(table[i][1], filepath)
                          /\ c.alias = Undefined

\* C14's case: /a holds two concrete filesystems and / one more, and the
\* candidates of /a/x are /a's two, asked for /x, and then /'s, asked for
\* /a/x, after a registration has added them to the table.
C14_Witness ==
  LET candidates == Candidates(Heap, original, <<"/", "a", "/", "x">>)
  IN /\ objs[original].mountedPaths > 2
     /\ Len(candidates) >= 3
     /\ \E i \in 1..Len(candidates) - 1 :
          /\ candidates[i].mountPath = <<"/", "a">>
          /\ candidates[i].alias = Undefined
          /\ candidates[i].subpath = <<"/", "x">>
          /\ candidates[i + 1].mountPath = <<"/">>
          /\ candidates[i + 1].alias = Undefined
          /\ candidates[i + 1].subpath = <<"/", "a", "/", "x">>

----
\* A descriptor of the table that was registered as a string or as an object
\* with an alias.
registeredAsAlias(d) == d.t = "object" /\ d.alias # Undefined

\* C15: on every registry object and for every path asked for, the candidate
\* of a descriptor registered as a string or as an object with an alias has
\* as its filesystem the descriptor's own filesystem if it names one and the
\* registry's root filesystem otherwise, and as its subpath the join of the
\* alias, made to start with /, and the base subpath.
C15_AliasDispatch ==
  \A o \in Handles, p \in RequestPaths :
    LET filepath == ensureStartsWithSlash(p)
        table == Table(Heap, o)
        candidates == Candidates(Heap, o, filepath)
    IN \A i \in 1..Len(table) :
         startsWith(filepath, table[i][1])
         => \A k \in 1..Len(table[i][2]) :
              LET c == candidates[descriptorsBefore(table, filepath, i) + k]
                  d == table[i][2][k]
              IN registeredAsAlias(d)
                 => /\ c.filesystem = (IF filesystemOf(d) # Undefined
                                         THEN filesystemOf(d) ELSE objs[o].rootFS)
                    /\ c.subpath = pathJoin(ensureStartsWithSlash(d.alias.s),
                                            baseSubpath(table[i][1], filepath))

----
\* The candidates of a run whose function was called and has not called back.
inFlightOf(run) == {i \in Range(run.started) : run.answers[i] = NotInvoked}

\* C16: in a non-blocking call at most one filesystem function is in flight at
\* any time, the candidates are started in candidate order, and a candidate is
\* started only when every candidate started before it has called back.
C16_OneAtATime ==
  (run1.pc = "running")
  => /\ Cardinality(inFlightOf(run1)) <= 1
     /\ run1.inFlight <=> inFlightOf(run1) # {}
     /\ \A a, b \in 1..Len(run1.started) :
          a < b => /\ run1.started[a] < run1.started[b]
                   /\ run1.answers[run1.started[a]] # NotInvoked

\* C16's case: the third candidate's function is in flight after the first
\* two have called back, one after the other.
C16_Witness ==
  /\ run1.pc = "running"
  /\ run1.started = <<1, 2, 3>>
  /\ inFlightOf(run1) = {3}
  /\ run1.answers[1] # NotInvoked
  /\ run1.answers[2] # NotInvoked

----
\* Every filesystem function that was started calls back.
FairSpec == Spec /\ WF_vars(FilesystemCallsBack(1))

\* C17: when every filesystem function started by a non-blocking call calls
\* back, with an error, with a defined result or with neither, the caller's
\* callback is eventually called.
C17_CallbackEventually ==
  (run1.pc = "running") ~> (run1.callbackCalls # <<>> \/ run1.pc = "threw")

----
\* A sequence rearranged by a permutation of its positions.
permuted(seq, pi) == [i \in 1..Len(seq) |-> seq[pi[i]]]

\* The blocking call returns the listing.
returnsListing(outcome, listing) ==
  outcome.kind = "returned" /\ outcome.value = listing

\* C18: when readdirSync returns a listing, the same candidates with the same
\* answers taken in any other order give the same listing, and so do the
\* candidates with any one of them, and its answer, registered once more.
C18_MergeOrderIndependentIdempotent ==
  (/\ syncCall.pc = "done"
   /\ syncCall.funcName = "readdir"
   /\ syncCall.outcome.kind = "returned"
   /\ syncCall.outcome.value.t = "array")
  => LET n == Len(syncCall.toIterateOver)
     IN /\ \A pi \in Permutations(1..n) :
             returnsListing(callSyncFunc("readdir", permuted(syncCall.toIterateOver, pi),
                                         permuted(syncCall.outcomes, pi)),
                            syncCall.outcome.value)
        /\ \A k \in 1..n :
             returnsListing(callSyncFunc("readdir", Append(syncCall.toIterateOver, syncCall.toIterateOver[k]),
                                         Append(syncCall.outcomes, syncCall.outcomes[k])),
                            syncCall.outcome.value)

\* C18's case: three candidates, of which one failed and the other two listed
\* [F, Y] and [A, F], gave [A, F, Y].
C18_Witness ==
  /\ syncCall.pc = "done"
  /\ syncCall.funcName = "readdir"
  /\ Len(syncCall.toIterateOver) >= 3
  /\ \E i, j, k \in 1..Len(syncCall.toIterateOver) :
       /\ i < j
       /\ syncCall.outcomes[i] = array(<<str(<<"F">>), str(<<"Y">>)>>)
       /\ syncCall.outcomes[j] = array(<<str(<<"A">>), str(<<"F">>)>>)
       /\ isError(syncCall.outcomes[k])
       /\ {i, j, k} \subseteq Range(syncCall.outcome.invoked)
  /\ returnsListing(syncCall.outcome, array(<<str(<<"A">>), str(<<"F">>), str(<<"Y">>)>>))

----
\* The characters and the length of the short paths every function is tried
\* on.
PathCharacters == {".", "/", "a"}

MaxPathLen == 3

ShortPaths == UNION {[1..k -> PathCharacters] : k \in 0..MaxPathLen}

\* q is p as the normalizer is to leave it.
normalizedAs(p, q) ==
  /\ startsWith(p, <<".", "/">>) => q = Tail(p)
  /\ (~startsWith(p, <<".", "/">>) /\ ~startsWith(p, <<"/">>)) => q = <<"/">> \o p
  /\ startsWith(p, <<"/">>) => q = p
  /\ q # <<>> /\ q[1] = "/"
  /\ ensureStartsWithSlash(q) = q

\* C19: the path a blocking call works on is the path asked for without its
\* leading . when that begins with ./, with a / put before it when it begins
\* with neither ./ nor / (the empty path included), and unchanged when it
\* begins with /; it always begins with /, and normalizing it again leaves
\* it unchanged.  The same holds of the normalizer on every short path.
C19_NormalizerTotalIdempotent ==
  /\ (syncCall.pc = "done") => normalizedAs(syncCall.asked, syncCall.filepath)
  /\ \A p \in ShortPaths : normalizedAs(p, ensureStartsWithSlash(p))

\* C19's case: a call for ./f/x has worked on /f/x.
C19_Witness ==
  /\ syncCall.pc = "done"
  /\ syncCall.asked = <<".", "/", "f", "/", "x">>
  /\ syncCall.filepath = <<"/", "f", "/", "x">>
  /\ syncCall.toIterateOver # <<>>

----
\* C20: a non-blocking call whose candidates' functions all throw when called
\* lets no exception out to its caller, and calls the caller's callback once,
\* with the first candidate's failure and no result.
C20_ThrowingCandidatesReported ==
  (/\ run1.pc # "idle"
   /\ Len(run1.toIterateOver) > 0
   /\ \A i \in 1..Len(run1.toIterateOver) : throwsWhenCalled(run1.toIterateOver[i].filesystem))
  => /\ run1.pc = "running"
     /\ run1.exception = Undefined
     /\ run1.callbackCalls = << <<failureOf(1), Undefined>> >>

----
\* C21: on every registry object, after the construction and any sequence of
\* addMountPoints, addMountPoint and clone, every mount path of the table
\* begins with /, and the table's iteration order is strictly descending in
\* the code-unit order of strings, so that no mount path occurs twice.
C21_TableSortedDistinct ==
  \A o \in Handles :
    LET table == Table(Heap, o)
    IN /\ \A i \in 1..Len(table) : startsWith(table[i][1], <<"/">>)
       /\ \A i, j \in 1..Len(table) :
            i < j => /\ strLess(table[j][1], table[i][1])
                     /\ table[i][1] # table[j][1]

\* C21's case: a clone exists, and after a registration one of the objects
\* holds at least four mount paths.
C21_Witness ==
  /\ cloneRef # 0
  /\ RegistrationsMade > 0
  /\ \E o \in Handles : Len(Table(Heap, o)) >= 4

----
\* The positions of a candidate list whose filesystem has the function, in
\* order.
implementing(toIterateOver, name) ==
  implementingUpTo(toIterateOver, name, Len(toIterateOver))

\* The elements of a sequence at the given positions.
at(seq, positions) == [k \in 1..Len(positions) |-> seq[positions[k]]]

\* A non-blocking run driven by the answers given, as far as they go.
RECURSIVE driven(_, _)
driven(run, answers) ==
  IF run.pc = "running" /\ run.inFlight /\ answers[run.index + 1] # NotInvoked
    THEN LET a == answers[run.index + 1]
         IN driven(filesystemCallback(run, IF isError(a) THEN a ELSE Undefined,
                                           IF isError(a) THEN Undefined ELSE a),
                   answers)
    ELSE run

\* The blocking call on the candidates that have the function alone.
syncWithoutOthers(call) ==
  LET keep == implementing(call.toIterateOver, call.funcName)
  IN callSyncFunc(call.funcName, at(call.toIterateOver, keep), at(call.outcomes, keep))

\* The non-blocking call on the candidates that have the function alone,
\* answering as they have answered so far.
asyncWithoutOthers(run) ==
  LET keep == implementing(run.toIterateOver, run.funcName)
  IN driven(iterateOverFilesystemsAsync(newRun(run.funcName, run.filepath,
                                               at(run.toIterateOver, keep))),
            at(run.answers, keep))

\* C22: when some candidate lacks the function and another has yielded a
\* defined result, the blocking call returns what it returns on the candidates
\* having the function alone, having invoked the same ones, and the
\* non-blocking call has started the same candidates and called the caller's
\* callback as it does on those alone: the candidate without the function is
\* passed over.
C22_MissingFunctionPassedOver ==
  /\ (/\ syncCall.pc = "done"
      /\ Len(implementing(syncCall.toIterateOver, syncCall.funcName)) < Len(syncCall.toIterateOver)
      /\ \E i \in Range(implementing(syncCall.toIterateOver, syncCall.funcName)) :
           isDefinedResult(syncCall.outcomes[i]))
     => LET keep == implementing(syncCall.toIterateOver, syncCall.funcName)
            alone == syncWithoutOthers(syncCall)
        IN /\ syncCall.outcome.kind = "returned"
           /\ syncCall.outcome.value = alone.value
           /\ alone.kind = "returned"
           /\ syncCall.outcome.invoked = at(keep, alone.invoked)
  /\ (/\ run1.pc = "running"
      /\ Len(implementing(run1.toIterateOver, run1.funcName)) < Len(run1.toIterateOver)
      /\ \E i \in 1..Len(run1.toIterateOver) :
           isDefinedResult(run1.answers[i]) /\ run1.answers[i] # NotInvoked)
     => LET keep == implementing(run1.toIterateOver, run1.funcName)
            alone == asyncWithoutOthers(run1)
        IN /\ run1.callbackCalls = alone.callbackCalls
           /\ run1.started = at(keep, alone.started)
           /\ run1.inFlight = alone.inFlight

\* C22's case: a non-blocking readdir over four candidates, of which the
\* second and the last lack the function, has passed over both and called
\* back with the listing of the first after the third failed.
C22_Witness ==
  /\ run1.pc = "running"
  /\ run1.funcName = "readdir"
  /\ Len(run1.toIterateOver) = 4
  /\ implementing(run1.toIterateOver, "readdir") = <<1, 3>>
  /\ run1.answers[1].t = "array"
  /\ isError(run1.answers[3])
  /\ run1.started = <<1, 3>>
  /\ run1.callbackCalls = << <<Undefined, array(sort(unique(run1.answers[1].items)))>> >>

----
\* C23: when a stat / readFile / readlink has candidates and none of them has
\* the function, the blocking call throws a failure that is an error value,
\* not undefined, and the non-blocking call calls back once with such a
\* failure and no result.
C23_NoImplementationFailsDefined ==
  /\ (/\ syncCall.pc = "done"
      /\ returnFirstValue(syncCall.funcName)
      /\ Len(syncCall.toIterateOver) > 0
      /\ implementing(syncCall.toIterateOver, syncCall.funcName) = <<>>)
     => /\ syncCall.outcome.kind = "thrown"
        /\ isError(syncCall.outcome.value)
  /\ (/\ run1.pc = "running"
      /\ returnFirstValue(run1.funcName)
      /\ Len(run1.toIterateOver) > 0
      /\ implementing(run1.toIterateOver, run1.funcName) = <<>>)
     => /\ Len(run1.callbackCalls) = 1
        /\ isError(run1.callbackCalls[1][1])
        /\ run1.callbackCalls[1][2] = Undefined

----
\* C24: a blocking call that gives its caller no defined result, and in which
\* some candidate threw, throws the failure of the first candidate that threw,
\* whatever the other candidates did (returned nothing, or lack the function).
C24_EarliestFailureThrown ==
  (/\ syncCall.pc = "done"
   /\ ~(syncCall.outcome.kind = "returned" /\ isDefinedResult(syncCall.outcome.value))
   /\ firstFailure(syncCall.outcomes, syncCall.outcome.invoked) # Undefined)
  => /\ syncCall.outcome.kind = "thrown"
     /\ syncCall.outcome.value = firstFailure(syncCall.outcomes, syncCall.outcome.invoked)

----
\* Two non-blocking calls at a time: what is asked for.
TwoRequestFuncNames == {"stat", "readdir"}

TwoRequestPaths == { <<"/", "a", "/", "x">>, <<"/", "x">> }

\* Non-blocking calls of both requests, their filesystems calling back in
\* any order.
NextTwoRequests ==
  \/ \E r \in Requests, f \in TwoRequestFuncNames, p \in TwoRequestPaths :
       CallAsync(r, original, f, p)
  \/ \E r \in Requests : FilesystemCallsBack(r)

SpecTwoRequests == Init /\ [][NextTwoRequests]_vars

\* The run a request makes alone, its filesystems answering as they have
\* answered so far.
alone(run) ==
  driven(iterateOverFilesystemsAsync([newRun(run.funcName, run.filepath, run.toIterateOver)
                                        EXCEPT !.mountedPaths = run.mountedPaths]),
         run.answers)

\* C25: with two non-blocking calls under way on one registry, whatever the
\* order in which their filesystems call back, each call has started the
\* candidates, and called its caller's callback with the arguments, that it
\* starts and calls with when made alone with the same answers; nothing of
\* its closures differs.
C25_RequestsDoNotInterfere ==
  \A r \in Requests :
    asyncCall[r].pc # "idle"
    => /\ asyncCall[r].started = alone(asyncCall[r]).started
       /\ asyncCall[r].callbackCalls = alone(asyncCall[r]).callbackCalls
       /\ asyncCall[r] = alone(asyncCall[r])

\* C25's case: both calls, for different functions, have had an answer and
\* have their second filesystem function in flight at the same time.
C25_Witness ==
  /\ \A r \in Requests :
       /\ asyncCall[r].pc = "running"
       /\ asyncCall[r].inFlight
       /\ Len(asyncCall[r].started) >= 2
  /\ asyncCall[1].funcName # asyncCall[2].funcName

----
\* In this step every descriptor supplied under every key of the mapping is,
\* afterwards, in object o's list for the key's normalized mount path.
allRegisteredOn(o, m) ==
  \A e \in Range(m) :
    LET mountPath == ensureStartsWithSlash(e[1])
    IN /\ hasMount(Table(Heap', o), mountPath)
       /\ Range(supplied(e[2])) \subseteq Range(listAt(Table(Heap', o), mountPath))

\* C26: after an addMountPoints with any mapping, every descriptor supplied
\* under every key is in the table's list for that key's normalized mount
\* path, also when two keys of the mapping name the same mount path (a and
\* /a).
C26_EveryDescriptorRegistered ==
  [][\A o \in Handles, m \in AddedMappings :
       AddMountPoints(o, m) => allRegisteredOn(o, m)]_vars

----
\* A non-blocking call with registrations made before it and while it is
\* under way.
MutatingPaths == { <<"/", "a", "/", "x">> }

\* Registrations made around one call.
MaxRegistrationsAroundCall == 1

NextMutating ==
  \/ \E f \in TwoRequestFuncNames, p \in MutatingPaths : CallAsync(1, original, f, p)
  \/ FilesystemCallsBack(1)
  \/ \E m \in AddedMappings :
       /\ RegistrationsMade < MaxRegistrationsAroundCall
       /\ AddMountPoints(original, m)
       /\ UNCHANGED callVars
  \/ \E p \in AddedMountPaths, f \in AddedFilesystems :
       /\ RegistrationsMade < MaxRegistrationsAroundCall
       /\ AddMountPoint(original, p, f)
       /\ UNCHANGED callVars

SpecMutating == Init /\ [][NextMutating]_vars

\* The candidates of filepath in the Map with identity ref.
candidatesIn(ref, filepath) ==
  Candidates([Heap EXCEPT !.objs[original].mountedPaths = ref], original, filepath)

\* C27: whatever registrations are made on the registry while a non-blocking
\* call is under way, the call's candidates remain those of the Map the
\* registry had when the call was made, and every filesystem function the
\* call has called is that of the candidate at its position in that list,
\* called with that candidate's subpath, in candidate order.
C27_CandidatesFixedAtStart ==
  (run1.pc # "idle")
  => /\ run1.toIterateOver = candidatesIn(run1.mountedPaths, run1.filepath)
     /\ Len(run1.invoked) = Len(run1.started)
     /\ \A k \in 1..Len(run1.started) :
          /\ run1.invoked[k].filesystem = run1.toIterateOver[run1.started[k]].filesystem
          /\ run1.invoked[k].subpath = run1.toIterateOver[run1.started[k]].subpath
          /\ k > 1 => run1.started[k - 1] < run1.started[k]

\* C27's case: since the call was made, a registration has changed the
\* candidates of its path, and the call has gone on to a later candidate of
\* its own list.
C27_Witness ==
  /\ run1.pc = "running"
  /\ run1.mountedPaths < objs[original].mountedPaths
  /\ Candidates(Heap, original, run1.filepath) # run1.toIterateOver
  /\ Len(run1.started) >= 2
  /\ run1.answers[run1.started[1]] # NotInvoked
  /\ \E k \in 1..Len(run1.toIterateOver) :
       /\ k <= Len(Candidates(Heap, original, run1.filepath))
       /\ k \in Range(run1.started) /\ k > run1.started[1]
       /\ Candidates(Heap, original, run1.filepath)[k].filesystem # run1.toIterateOver[k].filesystem

----
\* C28: every subpath with which a filesystem function is called, by a
\* blocking or a non-blocking call, begins with /, whatever the mount path
\* (/ or not) and the descriptor (filesystem or alias), also when the path
\* asked for is the mount path itself or merely begins with its characters
\* (mount /a, path /ab).
C28_SubpathsAbsolute ==
  /\ (syncCall.pc = "done")
     => \A i \in Range(syncCall.outcome.invoked) :
          startsWith(syncCall.toIterateOver[i].subpath, <<"/">>)
  /\ \A k \in 1..Len(run1.invoked) : startsWith(run1.invoked[k].subpath, <<"/">>)

====
